---- MODULE Spec2Model ----
(***************************************************************************)
(* goposm: the two-phase import pipeline of goposm.go.                     *)
(*                                                                         *)
(* main() opens the OSM cache, runs the read phase (parse(): parse         *)
(* workers -> four channels -> cache writer workers) and then the write    *)
(* phase (relation loop, parallel way workers, node loop -> insert         *)
(* buffer).                                                                *)
(*                                                                         *)
(* The goroutines of one pool run the same closure, so a pool is kept as   *)
(* the set of items its workers currently hold plus the number of workers  *)
(* that have returned; the workers waiting at their range loop are the     *)
(* rest of the pool.                                                       *)
(***************************************************************************)
EXTENDS Naturals, Integers, Sequences, FiniteSets, Bags, TLC

(***************************************************************************)
(* Bounds of the model.                                                    *)
(***************************************************************************)
\* largest value of runtime.NumCPU() that is explored (1..MaxCPU)
MaxCPU == 2
\* number of block positions of the input file
NBlocks == 2

(***************************************************************************)
(* Program constants.                                                      *)
(***************************************************************************)
\* capacity of the channels nodes, coords, ways, relations
ChanCap == 16
\* rows of one table the insert buffer collects before it passes them on
BatchSize == 4096
\* number of node writer workers
NodeWriters == 2

\* the four channels of parse(), in the order ParseBlock takes them
Kinds == <<"coords", "nodes", "ways", "relations">>
KindSet == {Kinds[i] : i \in 1..4}
\* the kinds whose writer runs a tag filter
FilteredKinds == {"nodes", "ways", "relations"}

(***************************************************************************)
(* The input file.  Block b carries the coords 2b-1 and 2b; the first      *)
(* block also carries the tagged nodes and the ways, the second block the  *)
(* relations.  A block yields at most one batch per channel.               *)
(***************************************************************************)
BlockKinds(b) ==
    {"coords"} \cup (IF b = 1 THEN {"nodes", "ways"} ELSE {})
               \cup (IF b = 2 THEN {"relations"} ELSE {})

BlockCoords(b) == {2 * b - 1, 2 * b}

\* tagged nodes of block 1
BlockNodes(b) ==
    IF b = 1 THEN { [id |-> 1, tags |-> {"amenity", "source"}] } ELSE {}

\* way 1 is a closed ring over coords of both blocks, way 2 an open line,
\* way 3 refers to a coord that no block carries and has no tag the
\* mapping keeps
BlockWays(b) ==
    IF b = 1
    THEN { [id |-> 1, refs |-> <<1, 2, 3, 1>>, tags |-> {"building", "highway", "source"}],
           [id |-> 2, refs |-> <<3, 4>>, tags |-> {"highway"}],
           [id |-> 3, refs |-> <<4, 9>>, tags |-> {"source"}] }
    ELSE {}

\* relation 1 is a multipolygon over way 1, node 1 and a way that no block
\* carries; relation 2 is a route over way 2
BlockRelations(b) ==
    IF b = 2
    THEN { [id |-> 1,
            members |-> << [type |-> "way", id |-> 1],
                           [type |-> "node", id |-> 1],
                           [type |-> "way", id |-> 7] >>,
            tags |-> {"type", "landuse", "source"}],
           [id |-> 2,
            members |-> << [type |-> "way", id |-> 2] >>,
            tags |-> {"type", "route"}] }
    ELSE {}

(***************************************************************************)
(* The tag mapping: the retention set of every kind and the match rules.   *)
(***************************************************************************)
NodeTagFilter(tags) == tags \cap {"amenity"}
WayTagFilter(tags) == tags \cap {"building", "highway", "landuse"}
RelationTagFilter(tags) == tags \cap {"type", "landuse", "building"}

\* the tables an element with these tags is matched to
PointMatcher(tags) == IF "amenity" \in tags THEN {"poi"} ELSE {}
LineStringMatcher(tags) == IF "highway" \in tags THEN {"roads"} ELSE {}
PolygonMatcher(tags) ==
    (IF "building" \in tags THEN {"buildings"} ELSE {})
    \cup (IF "landuse" \in tags THEN {"landuse"} ELSE {})

\* variant: the way writer leaves out the ways the filter left no tag on
FilterWaysDropEmpty(batch) ==
    { w \in { [x EXCEPT !.tags = WayTagFilter(x.tags)] : x \in batch } :
        w.tags # {} }

\* the loops `for i, _ := range batch { m.Filter(&batch[i].Tags) }`
FilterNodes(batch) == { [n EXCEPT !.tags = NodeTagFilter(n.tags)] : n \in batch }
FilterWays(batch) == { [w EXCEPT !.tags = WayTagFilter(w.tags)] : w \in batch }
FilterRelations(batch) ==
    { [r EXCEPT !.tags = RelationTagFilter(r.tags)] : r \in batch }

(***************************************************************************)
(* The content of a cache directory left by an earlier full import of the  *)
(* same file.                                                              *)
(***************************************************************************)
AllBlocks == 1..NBlocks
PriorCoords == UNION { BlockCoords(b) : b \in AllBlocks }
PriorNodes == UNION { FilterNodes(BlockNodes(b)) : b \in AllBlocks }
PriorWays == UNION { FilterWays(BlockWays(b)) : b \in AllBlocks }
PriorRelations == UNION { FilterRelations(BlockRelations(b)) : b \in AllBlocks }
PriorInsertedWays == {1, 7}

VARIABLES
    \* ---- environment and flags
    ncpu,            \* runtime.NumCPU()
    skipCoords, skipNodes, skipWays,
    read,            \* *read != ""
    diff,            \* *diff
    \* ---- main()
    pc,              \* position of the main goroutine
    \* ---- the cache directory and its stores
    cacheExists,     \* osmCache.Exists()
    freshAtOpen,     \* history: the cache was empty when it was opened
    cacheCoords, cacheNodes, cacheWays, cacheRelations,
    insertedWays,
    linearImport,    \* the linear-import flag of the coord store
    flushCalls,      \* history: number of Coords.Flush() calls
    \* ---- parse()
    posNext,         \* next position the positions channel delivers
    parsing,         \* parse workers inside ParseBlock: [pos, sent]
    parserDone,      \* parse workers that have called waitParser.Done()
    chans,           \* kind -> batches in the channel (a batch is named by its block)
    closeCount,      \* kind -> number of close() calls on the channel
    holding,         \* kind -> batches received by a writer and not yet handled
    writerDone,      \* kind -> writers that have called waitCounter.Done()
    recvCount,       \* history: kind -> bag of batches received
    putLog,          \* history: kind -> sequence of batches passed to Put*
    sendOnClosed,    \* history: a send hit a closed channel
    \* ---- the write phase
    readStarted,     \* history: an Iter or a fill has been called on the cache
    fillWayCalls,    \* history: number of Coords.FillWay calls
    relQueue,        \* relations Relations.Iter() still yields
    matchedRels,     \* history: relations polygons.Match gave a match for
    wayQueue,        \* ways Ways.Iter() still yields
    wayHolding,      \* ways received by a way worker and not yet handled
    wayDone,         \* way workers that have called waitFill.Done()
    isInsertedLog,   \* history: the <<way id, answer>> pairs of IsInserted
    nodeQueue,       \* nodes Nodes.Iter() still yields
    rows,            \* bag of the rows passed to insertBuffer.Insert
    diffCoords,      \* way ids recorded in the diff coord store
    closed,          \* the things closed at the end of the write phase
    overwritecache,  \* flag --overwritecache, until the lifecycle guard used it
    appendcache,     \* flag --appendcache, until the lifecycle guard used it
    putArgs,         \* history: per kind, the elements passed to the put call
    filterLog,       \* history: bag of the <<kind, id>> a tag filter was run on
    relPass,         \* history: what the last pass of the relation loop did
    wayLog,          \* history: bag of the passes of the way worker loop
    dbRows,          \* bag of the rows the insert buffer passed to the DB writer
    closeLog         \* history: the close calls of the write phase, in order

readVars == << posNext, parsing, parserDone, chans, closeCount, holding,
               writerDone, recvCount, putLog, sendOnClosed >>
storeVars == << cacheCoords, cacheNodes, cacheWays, cacheRelations >>
flagVars == << ncpu, skipCoords, skipNodes, skipWays >>
cliVars == << overwritecache, appendcache >>
readHist == << putArgs, filterLog >>
writeHist == << relPass, wayLog, dbRows, closeLog >>

writeVars == << readStarted, fillWayCalls, relQueue, matchedRels, wayQueue,
                wayHolding, wayDone, isInsertedLog, nodeQueue, rows, diffCoords,
                closed >>

vars == << flagVars, cliVars, readHist, writeHist, read, diff, pc, cacheExists, freshAtOpen, storeVars,
           insertedWays, linearImport, flushCalls, readVars, writeVars >>

(***************************************************************************)
(* Pools.                                                                  *)
(***************************************************************************)
\* variant: the loop that starts the parse workers runs once too often
ParserPoolPlusOne == ncpu + 1

\* number of parse workers started by parse()
ParserPool == ncpu

\* number of cache writer workers started for a channel
WriterPool(k) == IF k = "nodes" THEN NodeWriters ELSE ncpu

\* workers of a pool that wait at the head of their range loop
ParserIdle == ParserPool - Cardinality(parsing) - parserDone
WriterIdle(k) == WriterPool(k) - Cardinality(holding[k]) - writerDone[k]

\* positions of the main goroutine inside parse()
ParsePcs == {"wait_parser", "close", "wait_counter"}

\* the goroutines parse() starts run from its start until the process exits
Spawned == read /\ pc \notin {"start", "open", "read_check", "fatal", "done"}

\* the batches a block sends after the first `sent` channels, as indexes of Kinds
Unsent(p) == { i \in 1..4 : i > p.sent /\ Kinds[i] \in BlockKinds(p.pos) }
Min(S) == CHOOSE x \in S : \A y \in S : x <= y

\* what geom.BuildRelation returned: a geometry, or an error that may have
\* the method Level() of the interface ErrorLevel
NoBuild == [called |-> FALSE, ok |-> FALSE, hasLevel |-> FALSE, level |-> 0]
BuildOk == [called |-> TRUE, ok |-> TRUE, hasLevel |-> FALSE, level |-> 0]
ErrorLevels == {-1, 0, 1}
BuildOutcomes ==
    {BuildOk}
    \cup { [called |-> TRUE, ok |-> FALSE, hasLevel |-> FALSE, level |-> 0] }
    \cup { [called |-> TRUE, ok |-> FALSE, hasLevel |-> TRUE, level |-> l] :
             l \in ErrorLevels }

\* the value of relPass while no relation has been handled
NoPass == [id |-> 0, members |-> "none", ways |-> {}, projected |-> {},
           build |-> NoBuild, logged |-> FALSE, printed |-> {}]

Init ==
    /\ ncpu \in 1..MaxCPU
    /\ skipCoords \in BOOLEAN
    /\ skipNodes \in BOOLEAN
    /\ skipWays \in BOOLEAN
    /\ read \in BOOLEAN
    /\ diff = FALSE
    /\ pc = "start"
    /\ cacheExists \in BOOLEAN
    /\ freshAtOpen = FALSE
    /\ cacheCoords = IF cacheExists THEN PriorCoords ELSE {}
    /\ cacheNodes = IF cacheExists THEN PriorNodes ELSE {}
    /\ cacheWays = IF cacheExists THEN PriorWays ELSE {}
    /\ cacheRelations = IF cacheExists THEN PriorRelations ELSE {}
    /\ insertedWays = IF cacheExists THEN PriorInsertedWays ELSE {}
    /\ linearImport = FALSE
    /\ flushCalls = 0
    /\ posNext = 1
    /\ parsing = {}
    /\ parserDone = 0
    /\ chans = [k \in KindSet |-> << >>]
    /\ closeCount = [k \in KindSet |-> 0]
    /\ holding = [k \in KindSet |-> {}]
    /\ writerDone = [k \in KindSet |-> 0]
    /\ recvCount = [k \in KindSet |-> EmptyBag]
    /\ putLog = [k \in KindSet |-> << >>]
    /\ sendOnClosed = FALSE
    /\ readStarted = FALSE
    /\ fillWayCalls = 0
    /\ relQueue = << >>
    /\ matchedRels = {}
    /\ wayQueue = << >>
    /\ wayHolding = {}
    /\ wayDone = 0
    /\ isInsertedLog = {}
    /\ nodeQueue = << >>
    /\ rows = EmptyBag
    /\ diffCoords = {}
    /\ closed = {}
    /\ overwritecache \in BOOLEAN
    /\ appendcache \in BOOLEAN
    /\ putArgs = [k \in FilteredKinds |-> {}]
    /\ filterLog = EmptyBag
    /\ relPass = NoPass
    /\ wayLog = EmptyBag
    /\ dbRows = EmptyBag
    /\ closeLog = << >>

(***************************************************************************)
(* main(): cache lifecycle, lines 194-212.                                 *)
(***************************************************************************)
\* variant: the guard looks at --appendcache before --overwritecache
CacheGuardAppendFirst(rd, exists, ow, ap) ==
    IF rd /\ exists
    THEN IF ap THEN "keep" ELSE IF ow THEN "remove" ELSE "fatal"
    ELSE "keep"

\* what the guard of lines 196-207 does with the cache directory
CacheGuard(rd, exists, ow, ap) ==
    IF rd /\ exists
    THEN IF ow THEN "remove" ELSE IF ~ap THEN "fatal" ELSE "keep"
    ELSE "keep"

\* The guard is the only reader of --overwritecache and --appendcache; the
\* model forgets their values once the guard has read them.

\* --overwritecache on an existing cache: osmCache.Remove()
MainRemoveCache ==
    /\ pc = "start"
    /\ CacheGuard(read, cacheExists, overwritecache, appendcache) = "remove"
    /\ cacheExists' = FALSE
    /\ cacheCoords' = {}
    /\ cacheNodes' = {}
    /\ cacheWays' = {}
    /\ cacheRelations' = {}
    /\ insertedWays' = {}
    /\ overwritecache' = FALSE
    /\ appendcache' = FALSE
    /\ pc' = "open"
    /\ UNCHANGED << flagVars, readHist, writeHist, read, diff, freshAtOpen,
                    linearImport, flushCalls, readVars, writeVars >>

\* neither --overwritecache nor --appendcache on an existing cache: log.Fatal
MainCacheExistsFatal ==
    /\ pc = "start"
    /\ CacheGuard(read, cacheExists, overwritecache, appendcache) = "fatal"
    /\ overwritecache' = FALSE
    /\ appendcache' = FALSE
    /\ pc' = "fatal"
    /\ UNCHANGED << flagVars, readHist, writeHist, read, diff, cacheExists,
                    freshAtOpen, storeVars, insertedWays, linearImport,
                    flushCalls, readVars, writeVars >>

\* no read phase, no cache yet, or --appendcache without --overwritecache
MainKeepCache ==
    /\ pc = "start"
    /\ CacheGuard(read, cacheExists, overwritecache, appendcache) = "keep"
    /\ overwritecache' = FALSE
    /\ appendcache' = FALSE
    /\ pc' = "open"
    /\ UNCHANGED << flagVars, readHist, writeHist, read, diff, cacheExists,
                    freshAtOpen, storeVars, insertedWays, linearImport,
                    flushCalls, readVars, writeVars >>

\* osmCache.Open()
MainOpen ==
    /\ pc = "open"
    /\ freshAtOpen' = ~cacheExists
    /\ cacheExists' = TRUE
    /\ pc' = "read_check"
    /\ UNCHANGED << flagVars, cliVars, readHist, writeHist, read, diff, storeVars,
                    insertedWays, linearImport,
                    flushCalls, readVars, writeVars >>

(***************************************************************************)
(* main(): the read phase, lines 221-227.                                  *)
(***************************************************************************)
\* SetLinearImport(true), then parse() starts its workers and waits
MainSetLinearImport ==
    /\ pc = "read_check"
    /\ read
    /\ linearImport' = TRUE
    /\ pc' = "wait_parser"
    /\ UNCHANGED << flagVars, cliVars, readHist, writeHist, read, diff,
                    cacheExists, freshAtOpen, storeVars,
                    insertedWays, flushCalls, readVars, writeVars >>

MainSkipRead ==
    /\ pc = "read_check"
    /\ ~read
    /\ pc' = "write_check"
    /\ UNCHANGED << flagVars, cliVars, readHist, writeHist, read, diff,
                    cacheExists, freshAtOpen, storeVars,
                    insertedWays, linearImport, flushCalls, readVars, writeVars >>

(***************************************************************************)
(* parse(): the parse workers, lines 61-76.                                *)
(***************************************************************************)
\* a worker receives the next position from the positions channel
ParserTake ==
    /\ Spawned
    /\ ParserIdle > 0
    /\ posNext <= NBlocks
    /\ parsing' = IF BlockKinds(posNext) = {} THEN parsing
                  ELSE parsing \cup { [pos |-> posNext, sent |-> 0] }
    /\ posNext' = posNext + 1
    /\ UNCHANGED << flagVars, cliVars, readHist, writeHist, read, diff, pc,
                    cacheExists, freshAtOpen, storeVars,
                    insertedWays, linearImport, flushCalls, parserDone, chans,
                    closeCount, holding, writerDone, recvCount, putLog,
                    sendOnClosed, writeVars >>

\* ParseBlock sends the block's next batch; after the last one it returns
ParserSend ==
    /\ Spawned
    /\ \E p \in parsing :
         LET i == Min(Unsent(p))
             k == Kinds[i]
             rest == { j \in Unsent(p) : j > i }
         IN  /\ Len(chans[k]) < ChanCap
             /\ IF closeCount[k] > 0
                THEN /\ sendOnClosed' = TRUE
                     /\ chans' = chans
                ELSE /\ sendOnClosed' = sendOnClosed
                     /\ chans' = [chans EXCEPT ![k] = Append(@, p.pos)]
             /\ parsing' = IF rest = {} THEN parsing \ {p}
                           ELSE (parsing \ {p}) \cup { [p EXCEPT !.sent = i] }
    /\ UNCHANGED << flagVars, cliVars, readHist, writeHist, read, diff, pc,
                    cacheExists, freshAtOpen, storeVars,
                    insertedWays, linearImport, flushCalls, posNext, parserDone,
                    closeCount, holding, writerDone, recvCount, putLog, writeVars >>

\* the positions channel is exhausted: the range loop ends, waitParser.Done()
ParserExit ==
    /\ Spawned
    /\ ParserIdle > 0
    /\ posNext > NBlocks
    /\ parserDone' = parserDone + 1
    /\ UNCHANGED << flagVars, cliVars, readHist, writeHist, read, diff, pc,
                    cacheExists, freshAtOpen, storeVars,
                    insertedWays, linearImport, flushCalls, posNext, parsing, chans,
                    closeCount, holding, writerDone, recvCount, putLog,
                    sendOnClosed, writeVars >>

(***************************************************************************)
(* parse(): the cache writer workers, lines 80-140.                        *)
(***************************************************************************)
\* a writer of channel k receives the oldest batch
WriterRecv(k) ==
    /\ Spawned
    /\ WriterIdle(k) > 0
    /\ chans[k] # << >>
    /\ chans' = [chans EXCEPT ![k] = Tail(@)]
    /\ holding' = [holding EXCEPT ![k] = @ \cup {Head(chans[k])}]
    /\ recvCount' = [recvCount EXCEPT ![k] = @ (+) SetToBag({Head(chans[k])})]
    /\ UNCHANGED << flagVars, cliVars, readHist, writeHist, read, diff, pc,
                    cacheExists, freshAtOpen, storeVars,
                    insertedWays, linearImport, flushCalls, posNext, parsing,
                    parserDone, closeCount, writerDone, putLog, sendOnClosed, writeVars >>

\* the channel is closed and drained: the range loop ends, waitCounter.Done().
\* The writers of the pool that wait at their range loop return in one step:
\* their returns depend on nothing but the closed, drained channel and only
\* waitCounter observes them.
WriterExit(k) ==
    /\ Spawned
    /\ WriterIdle(k) > 0
    /\ closeCount[k] > 0
    /\ chans[k] = << >>
    /\ writerDone' = [writerDone EXCEPT ![k] = @ + WriterIdle(k)]
    /\ UNCHANGED << flagVars, cliVars, readHist, writeHist, read, diff, pc,
                    cacheExists, freshAtOpen, storeVars,
                    insertedWays, linearImport, flushCalls, posNext, parsing,
                    parserDone, chans, closeCount, holding, recvCount, putLog,
                    sendOnClosed, writeVars >>

\* a keyed store: a put replaces the element stored under the same id
PutByKey(store, batch) ==
    { e \in store : \A x \in batch : x.id # e.id } \cup batch

\* Nodes.PutNodes persists the nodes that kept a tag
PutNodes(store, batch) == PutByKey(store, { n \in batch : n.tags # {} })
PutWays(store, batch) == PutByKey(store, batch)
PutRelations(store, batch) == PutByKey(store, batch)
\* the coord store holds the ids of the coords
PutCoords(store, batch) == store \cup batch

\* the m.Filter calls a writer makes on a batch, one per element
Filtered(k, batch) == SetToBag({ << k, x.id >> : x \in batch })

\* body of the way writer loop, lines 85-92
WayWriterBody ==
    /\ Spawned
    /\ \E b \in holding["ways"] :
         /\ holding' = [holding EXCEPT !["ways"] = @ \ {b}]
         /\ IF skipWays
            THEN UNCHANGED << cacheWays, putLog, readHist >>
            ELSE /\ filterLog' = filterLog (+) Filtered("ways", BlockWays(b))
                 /\ putArgs' = [putArgs EXCEPT
                                  !["ways"] = @ \cup FilterWays(BlockWays(b))]
                 /\ cacheWays' = PutWays(cacheWays, FilterWays(BlockWays(b)))
                 /\ putLog' = [putLog EXCEPT !["ways"] = Append(@, b)]
    /\ UNCHANGED << flagVars, cliVars, writeHist, read, diff, pc, cacheExists,
                    freshAtOpen,
                    cacheCoords, cacheNodes, cacheRelations, insertedWays,
                    linearImport, flushCalls, posNext, parsing, parserDone, chans,
                    closeCount, writerDone, recvCount, sendOnClosed, writeVars >>

\* body of the relation writer loop, lines 102-106
RelationWriterBody ==
    /\ Spawned
    /\ \E b \in holding["relations"] :
         /\ holding' = [holding EXCEPT !["relations"] = @ \ {b}]
         /\ filterLog' = filterLog (+) Filtered("relations", BlockRelations(b))
         /\ putArgs' = [putArgs EXCEPT
                          !["relations"] = @ \cup FilterRelations(BlockRelations(b))]
         /\ cacheRelations' =
              PutRelations(cacheRelations, FilterRelations(BlockRelations(b)))
         /\ putLog' = [putLog EXCEPT !["relations"] = Append(@, b)]
    /\ UNCHANGED << flagVars, cliVars, writeHist, read, diff, pc, cacheExists,
                    freshAtOpen,
                    cacheCoords, cacheNodes, cacheWays, insertedWays, linearImport,
                    flushCalls, posNext, parsing, parserDone, chans, closeCount,
                    writerDone, recvCount, sendOnClosed, writeVars >>

\* variant: the coord writer does not look at skipCoords
CoordWriterBodyNoSkip ==
    /\ Spawned
    /\ \E b \in holding["coords"] :
         /\ holding' = [holding EXCEPT !["coords"] = @ \ {b}]
         /\ cacheCoords' = PutCoords(cacheCoords, BlockCoords(b))
         /\ putLog' = [putLog EXCEPT !["coords"] = Append(@, b)]
    /\ UNCHANGED << flagVars, cliVars, readHist, writeHist, read, diff, pc,
                    cacheExists, freshAtOpen, cacheNodes,
                    cacheWays, cacheRelations, insertedWays, linearImport,
                    flushCalls, posNext, parsing, parserDone, chans, closeCount,
                    writerDone, recvCount, sendOnClosed, writeVars >>

\* body of the coord writer loop, lines 115-119
CoordWriterBody ==
    /\ Spawned
    /\ \E b \in holding["coords"] :
         /\ holding' = [holding EXCEPT !["coords"] = @ \ {b}]
         /\ IF skipCoords
            THEN UNCHANGED << cacheCoords, putLog >>
            ELSE /\ cacheCoords' = PutCoords(cacheCoords, BlockCoords(b))
                 /\ putLog' = [putLog EXCEPT !["coords"] = Append(@, b)]
    /\ UNCHANGED << flagVars, cliVars, readHist, writeHist, read, diff, pc,
                    cacheExists, freshAtOpen, cacheNodes,
                    cacheWays, cacheRelations, insertedWays, linearImport,
                    flushCalls, posNext, parsing, parserDone, chans, closeCount,
                    writerDone, recvCount, sendOnClosed, writeVars >>

\* body of the node writer loop, lines 129-136
NodeWriterBody ==
    /\ Spawned
    /\ \E b \in holding["nodes"] :
         /\ holding' = [holding EXCEPT !["nodes"] = @ \ {b}]
         /\ IF skipNodes
            THEN UNCHANGED << cacheNodes, putLog, readHist >>
            ELSE /\ filterLog' = filterLog (+) Filtered("nodes", BlockNodes(b))
                 /\ putArgs' = [putArgs EXCEPT
                                  !["nodes"] = @ \cup FilterNodes(BlockNodes(b))]
                 /\ cacheNodes' = PutNodes(cacheNodes, FilterNodes(BlockNodes(b)))
                 /\ putLog' = [putLog EXCEPT !["nodes"] = Append(@, b)]
    /\ UNCHANGED << flagVars, cliVars, writeHist, read, diff, pc, cacheExists,
                    freshAtOpen,
                    cacheCoords, cacheWays, cacheRelations, insertedWays,
                    linearImport, flushCalls, posNext, parsing, parserDone, chans,
                    closeCount, writerDone, recvCount, sendOnClosed, writeVars >>

(***************************************************************************)
(* parse(): the main goroutine, lines 142-147.                             *)
(***************************************************************************)
\* variant: the wait ends with the first parse worker that returns
ParseWaitParserFirst ==
    /\ pc = "wait_parser"
    /\ parserDone >= 1
    /\ pc' = "close"
    /\ UNCHANGED << flagVars, cliVars, readHist, writeHist, read, diff,
                    cacheExists, freshAtOpen, storeVars,
                    insertedWays, linearImport, flushCalls, readVars, writeVars >>

\* waitParser.Wait() returns when every parse worker has called Done()
ParseWaitParser ==
    /\ pc = "wait_parser"
    /\ parserDone = ParserPool
    /\ pc' = "close"
    /\ UNCHANGED << flagVars, cliVars, readHist, writeHist, read, diff,
                    cacheExists, freshAtOpen, storeVars,
                    insertedWays, linearImport, flushCalls, readVars, writeVars >>

\* variant: close(ways) is missing
ParseCloseForgetsWays ==
    /\ pc = "close"
    /\ closeCount' = [k \in KindSet |->
                        IF k = "ways" THEN closeCount[k] ELSE closeCount[k] + 1]
    /\ pc' = "wait_counter"
    /\ UNCHANGED << flagVars, cliVars, readHist, writeHist, read, diff,
                    cacheExists, freshAtOpen, storeVars,
                    insertedWays, linearImport, flushCalls, posNext, parsing,
                    parserDone, chans, holding, writerDone, recvCount, putLog,
                    sendOnClosed, writeVars >>

\* close(coords); close(nodes); close(ways); close(relations): four calls of
\* the main goroutine that do not block, taken as one step
ParseClose ==
    /\ pc = "close"
    /\ closeCount' = [k \in KindSet |-> closeCount[k] + 1]
    /\ pc' = "wait_counter"
    /\ UNCHANGED << flagVars, cliVars, readHist, writeHist, read, diff,
                    cacheExists, freshAtOpen, storeVars,
                    insertedWays, linearImport, flushCalls, posNext, parsing,
                    parserDone, chans, holding, writerDone, recvCount, putLog,
                    sendOnClosed, writeVars >>

\* variant: parse() returns without waitCounter.Wait()
ParseWaitCounterSkipped ==
    /\ pc = "wait_counter"
    /\ pc' = "set_random"
    /\ UNCHANGED << flagVars, cliVars, readHist, writeHist, read, diff,
                    cacheExists, freshAtOpen, storeVars,
                    insertedWays, linearImport, flushCalls, readVars, writeVars >>

\* waitCounter.Wait() returns when every writer has called Done(); parse() returns
ParseWaitCounter ==
    /\ pc = "wait_counter"
    /\ \A k \in KindSet : writerDone[k] = WriterPool(k)
    /\ pc' = "set_random"
    /\ UNCHANGED << flagVars, cliVars, readHist, writeHist, read, diff,
                    cacheExists, freshAtOpen, storeVars,
                    insertedWays, linearImport, flushCalls, readVars, writeVars >>

\* variant: SetLinearImport(false) is missing
MainSetRandomOmitted ==
    /\ pc = "set_random"
    /\ pc' = "flush"
    /\ UNCHANGED << flagVars, cliVars, readHist, writeHist, read, diff,
                    cacheExists, freshAtOpen, storeVars,
                    insertedWays, linearImport, flushCalls, readVars, writeVars >>

\* osmCache.Coords.SetLinearImport(false)
MainSetRandom ==
    /\ pc = "set_random"
    /\ linearImport' = FALSE
    /\ pc' = "flush"
    /\ UNCHANGED << flagVars, cliVars, readHist, writeHist, read, diff,
                    cacheExists, freshAtOpen, storeVars,
                    insertedWays, flushCalls, readVars, writeVars >>

\* variant: Coords.Flush() is missing
MainFlushOmitted ==
    /\ pc = "flush"
    /\ pc' = "write_check"
    /\ UNCHANGED << flagVars, cliVars, readHist, writeHist, read, diff,
                    cacheExists, freshAtOpen, storeVars,
                    insertedWays, linearImport, flushCalls, readVars, writeVars >>

\* progress.Reset(); osmCache.Coords.Flush()
MainFlush ==
    /\ pc = "flush"
    /\ flushCalls' = flushCalls + 1
    /\ pc' = "write_check"
    /\ UNCHANGED << flagVars, cliVars, readHist, writeHist, read, diff,
                    cacheExists, freshAtOpen, storeVars,
                    insertedWays, linearImport, readVars, writeVars >>

(***************************************************************************)
(* main(): the write phase, lines 229-414.                                 *)
(*                                                                         *)
(* The stores answer as their contract says: a fill fails with NotFound    *)
(* when a way or a coord is absent, and IsInserted and PutMembers do not   *)
(* fail.  The two fills of the relation loop, which tell NotFound from     *)
(* other errors, may also fail with another error.  The geometry library   *)
(* returns a geometry or an error; an error of geom.BuildRelation may      *)
(* have a level.  The flags --write and --diff are drawn where main()      *)
(* first looks at them.                                                    *)
(***************************************************************************)
\* the elements of a store in key order, as Iter() yields them
RECURSIVE SortById(_)
SortById(S) ==
    IF S = {} THEN << >>
    ELSE LET m == CHOOSE x \in S : \A y \in S : x.id <= y.id
         IN  << m >> \o SortById(S \ {m})

\* results of the geometry library: a geometry or an error
GeomOutcomes == {"ok", "err"}

\* element.Way.IsClosed
IsClosed(w) == Len(w.refs) >= 4 /\ w.refs[1] = w.refs[Len(w.refs)]

\* Coords.FillWay finds the coords of a way
CoordsFound(w) == \A i \in 1..Len(w.refs) : w.refs[i] \in cacheCoords

\* the ids InsertedWays.PutMembers stores: those of the way-typed members
WayMemberIds(members) ==
    { members[i].id : i \in { j \in 1..Len(members) : members[j].type = "way" } }

\* the member ways Ways.FillMembers loads (m.Way # nil)
FilledMembers(members) ==
    { w \in cacheWays : w.id \in WayMemberIds(members) }

\* the rows of one element: one per matched table
RowsOf(src, id, geom, tables) ==
    SetToBag({ [src |-> src, id |-> id, table |-> t, geom |-> geom] : t \in tables })

MainNoWrite ==
    /\ pc = "write_check"
    /\ pc' = "stop"
    /\ UNCHANGED << flagVars, cliVars, readHist, writeHist, read, diff,
                    cacheExists, freshAtOpen, storeVars,
                    insertedWays, linearImport, flushCalls, readVars, writeVars >>

\* --write: the diff cache is removed and opened, the sink is opened
MainWrite ==
    /\ pc = "write_check"
    /\ \E d \in BOOLEAN : diff' = d
    /\ diffCoords' = {}
    /\ pc' = "rel_iter"
    /\ UNCHANGED << flagVars, cliVars, readHist, writeHist, read, cacheExists,
                    freshAtOpen, storeVars,
                    insertedWays, linearImport, flushCalls, readVars, readStarted,
                    fillWayCalls, relQueue, matchedRels, wayQueue, wayHolding,
                    wayDone, isInsertedLog, nodeQueue, rows, closed >>

\* rel := osmCache.Relations.Iter()
RelationsIter ==
    /\ pc = "rel_iter"
    /\ readStarted' = TRUE
    /\ relQueue' = SortById(cacheRelations)
    /\ pc' = "rel_loop"
    /\ UNCHANGED << flagVars, cliVars, readHist, writeHist, read, diff,
                    cacheExists, freshAtOpen, storeVars,
                    insertedWays, linearImport, flushCalls, readVars, fillWayCalls,
                    matchedRels, wayQueue, wayHolding, wayDone, isInsertedLog,
                    nodeQueue, rows, diffCoords, closed >>

\* variant: PutMembers is called outside the block of the matches
MarksMembersWhenBuilt(built, matches) == built

\* lines 287-301: the members are marked when the relation was built and matched
MarksMembers(built, matches) == built /\ matches # {}

\* variant: a missing member ends the pass like any other error
RelationAbortedOnAnyError(res) == res # "ok"

\* lines 266-271: only an error other than NotFound ends the pass
RelationAborted(res) == res = "err"

\* lines 277-284: the nodes of a member are projected unless FillWay failed
\* with an error other than NotFound
MemberProjected(res) == res # "err"

\* variant: the level is compared with `<` instead of `<=`
ErrLoggedBelowZero(e) == ~e.hasLevel \/ e.level >= 0

\* lines 288-293: an error is logged unless it has a level <= 0
ErrLogged(e) == ~e.hasLevel \/ e.level > 0

\* the insert buffer passes a table's rows on when a batch is complete
InsertFlush(db, all) ==
    LET pend == all (-) db
        full == { t \in { x.table : x \in BagToSet(pend) } :
                    BagCardinality(
                      [x \in { y \in BagToSet(pend) : y.table = t } |-> pend[x]])
                    >= BatchSize }
    IN  db (+) [x \in { y \in BagToSet(pend) : y.table \in full } |-> pend[x]]

\* one pass of the relation loop, lines 263-306.  FillMembers and FillWay
\* answer from the stores, or fail with an error other than NotFound.
RelationStep ==
    /\ pc = "rel_loop"
    /\ relQueue # << >>
    /\ LET r == Head(relQueue)
           loaded == FilledMembers(r.members)
       IN  \E membersErr \in BOOLEAN, wayErr \in SUBSET { w.id : w \in loaded },
              out \in BuildOutcomes :
             LET membersRes ==
                   IF membersErr THEN "err"
                   ELSE IF WayMemberIds(r.members) \subseteq { w.id : w \in loaded }
                        THEN "ok" ELSE "NotFound"
                 aborted == RelationAborted(membersRes)
                 filled == IF aborted THEN {} ELSE loaded
                 wayRes == { << w.id, IF w.id \in wayErr THEN "err"
                                      ELSE IF CoordsFound(w) THEN "ok"
                                      ELSE "NotFound" >> : w \in filled }
                 build == IF aborted THEN NoBuild ELSE out
                 built == build.ok
                 matches == IF built THEN PolygonMatcher(r.tags) ELSE {}
             IN  /\ fillWayCalls' = fillWayCalls + Cardinality(filled)
                 /\ rows' = rows (+) RowsOf("relation", r.id, "multipolygon", matches)
                 /\ dbRows' = InsertFlush(dbRows, rows')
                 /\ matchedRels' = IF matches # {} THEN matchedRels \cup {r.id}
                                   ELSE matchedRels
                 /\ insertedWays' = IF MarksMembers(built, matches)
                                    THEN insertedWays \cup WayMemberIds(r.members)
                                    ELSE insertedWays
                 /\ relPass' =
                      [id |-> r.id,
                       members |-> membersRes,
                       ways |-> wayRes,
                       projected |-> { x[1] : x \in { y \in wayRes :
                                                       MemberProjected(y[2]) } },
                       build |-> build,
                       logged |-> build.called /\ ~build.ok /\ ErrLogged(build),
                       printed |-> (IF membersRes = "err"
                                    THEN { << "members", r.id >> } ELSE {})
                                   \cup { << "way", x[1] >> :
                                            x \in { y \in wayRes : y[2] = "err" } }]
    /\ relQueue' = Tail(relQueue)
    /\ UNCHANGED << flagVars, cliVars, readHist, wayLog, closeLog, read, diff, pc,
                    cacheExists, freshAtOpen, storeVars, linearImport, flushCalls,
                    readVars, readStarted, wayQueue, wayHolding, wayDone,
                    isInsertedLog, nodeQueue, diffCoords, closed >>

\* the relation loop has ended: way := osmCache.Ways.Iter(), the workers start
WaysIter ==
    /\ pc = "rel_loop"
    /\ relQueue = << >>
    /\ wayQueue' = SortById(cacheWays)
    /\ relPass' = NoPass
    /\ pc' = "wait_fill"
    /\ UNCHANGED << flagVars, cliVars, readHist, wayLog, dbRows, closeLog, read,
                    diff, cacheExists, freshAtOpen, storeVars,
                    insertedWays, linearImport, flushCalls, readVars, readStarted,
                    fillWayCalls, relQueue, matchedRels, wayHolding, wayDone,
                    isInsertedLog, nodeQueue, rows, diffCoords, closed >>

WayIdle == ncpu - Cardinality(wayHolding) - wayDone

\* variant: the iterator hands the way it yielded to the next receiver again
WayRecvNoDequeue ==
    /\ pc = "wait_fill"
    /\ WayIdle > 0
    /\ wayQueue # << >>
    /\ wayHolding' = wayHolding \cup {Head(wayQueue)}
    /\ UNCHANGED << flagVars, cliVars, readHist, writeHist, read, diff, pc,
                    cacheExists, freshAtOpen, storeVars, insertedWays,
                    linearImport, flushCalls, readVars, readStarted, fillWayCalls,
                    relQueue, matchedRels, wayQueue, wayDone, isInsertedLog,
                    nodeQueue, rows, diffCoords, closed >>

\* a way worker receives the next way
WayRecv ==
    /\ pc = "wait_fill"
    /\ WayIdle > 0
    /\ wayQueue # << >>
    /\ wayHolding' = wayHolding \cup {Head(wayQueue)}
    /\ wayQueue' = Tail(wayQueue)
    /\ UNCHANGED << flagVars, cliVars, readHist, writeHist, read, diff, pc,
                    cacheExists, freshAtOpen, storeVars,
                    insertedWays, linearImport, flushCalls, readVars, readStarted,
                    fillWayCalls, relQueue, matchedRels, wayDone, isInsertedLog,
                    nodeQueue, rows, diffCoords, closed >>

\* variant: the error of FillWay is not looked at
WaySkippedOnlyInserted(inserted, found) == inserted

\* variant: the answer of IsInserted is not looked at
WaySkippedOnlyMissing(inserted, found) == ~found

\* lines 325-332: the way is left out when it is marked or a coord is missing
WaySkipped(inserted, found) == inserted \/ ~found

\* the geometry library is asked when a matcher gave a match
GeomAnswers(tables) == IF tables = {} THEN {"none"} ELSE GeomOutcomes

\* variant: the polygon branch works on the way the line-string branch has
\* set the geometry of
WayRowsSharedGeom(w, lsOut, pgOut) ==
    LET ls == LineStringMatcher(w.tags)
        pg == IF IsClosed(w) THEN PolygonMatcher(w.tags) ELSE {}
        lsRows == IF ls # {} /\ lsOut = "ok"
                  THEN RowsOf("way", w.id, "linestring", ls) ELSE EmptyBag
        pgRows == IF pg # {} /\ pgOut = "ok" /\ ~(ls # {} /\ lsOut = "err")
                  THEN RowsOf("way", w.id,
                              IF ls # {} THEN "linestring" ELSE "polygon", pg)
                  ELSE EmptyBag
    IN  lsRows (+) pgRows

\* lines 334-371: the rows of a way that was not left out
WayRows(w, lsOut, pgOut) ==
    LET ls == LineStringMatcher(w.tags)
        pg == IF IsClosed(w) THEN PolygonMatcher(w.tags) ELSE {}
        lsRows == IF ls # {} /\ lsOut = "ok"
                  THEN RowsOf("way", w.id, "linestring", ls) ELSE EmptyBag
        pgRows == IF pg # {} /\ pgOut = "ok" /\ ~(ls # {} /\ lsOut = "err")
                  THEN RowsOf("way", w.id, "polygon", pg) ELSE EmptyBag
    IN  lsRows (+) pgRows

\* variant: AddFromWay is called inside the block of the closed ways
WayReachesDiffWhenClosed(w, lsOut, pgOut) ==
    LET ls == LineStringMatcher(w.tags)
        pg == IF IsClosed(w) THEN PolygonMatcher(w.tags) ELSE {}
    IN  /\ IsClosed(w)
        /\ ~(ls # {} /\ lsOut = "err")
        /\ ~(pg # {} /\ pgOut = "err")

\* lines 334-375: the pass reaches the diff step when no geometry failed
WayReachesDiff(w, lsOut, pgOut) ==
    LET ls == LineStringMatcher(w.tags)
        pg == IF IsClosed(w) THEN PolygonMatcher(w.tags) ELSE {}
    IN  /\ ~(ls # {} /\ lsOut = "err")
        /\ ~(pg # {} /\ pgOut = "err")

\* variant: a way worker marks the way it has emitted rows for
WayProcessMarking ==
    /\ pc = "wait_fill"
    /\ \E w \in wayHolding :
       \E lsOut \in GeomAnswers(LineStringMatcher(w.tags)),
          pgOut \in GeomAnswers(IF IsClosed(w) THEN PolygonMatcher(w.tags) ELSE {}) :
         LET inserted == w.id \in insertedWays
             skipped == WaySkipped(inserted, CoordsFound(w))
             diffed == ~skipped /\ diff /\ WayReachesDiff(w, lsOut, pgOut)
         IN  /\ wayHolding' = wayHolding \ {w}
             /\ isInsertedLog' = isInsertedLog \cup { << w.id, inserted >> }
             /\ fillWayCalls' = IF inserted THEN fillWayCalls ELSE fillWayCalls + 1
             /\ rows' = IF skipped THEN rows ELSE rows (+) WayRows(w, lsOut, pgOut)
             /\ dbRows' = InsertFlush(dbRows, rows')
             /\ wayLog' = wayLog (+) SetToBag({
                             [id |-> w.id,
                              inserted |-> inserted,
                              filled |-> ~inserted,
                              found |-> ~inserted /\ CoordsFound(w),
                              ls |-> IF skipped THEN "none" ELSE lsOut,
                              pg |-> IF skipped THEN "none" ELSE pgOut,
                              diffed |-> diffed] })
             /\ insertedWays' = IF skipped THEN insertedWays
                                ELSE insertedWays \cup {w.id}
             /\ diffCoords' = IF diffed THEN diffCoords \cup {w.id} ELSE diffCoords
    /\ UNCHANGED << flagVars, cliVars, readHist, relPass, closeLog, read, diff, pc,
                    cacheExists, freshAtOpen, storeVars,
                    linearImport, flushCalls, readVars, readStarted,
                    relQueue, matchedRels, wayQueue, wayDone, nodeQueue, closed >>

\* one pass of a way worker's loop, lines 318-376
WayProcess ==
    /\ pc = "wait_fill"
    /\ \E w \in wayHolding :
       \E lsOut \in GeomAnswers(LineStringMatcher(w.tags)),
          pgOut \in GeomAnswers(IF IsClosed(w) THEN PolygonMatcher(w.tags) ELSE {}) :
         LET inserted == w.id \in insertedWays
             skipped == WaySkipped(inserted, CoordsFound(w))
             diffed == ~skipped /\ diff /\ WayReachesDiff(w, lsOut, pgOut)
         IN  /\ wayHolding' = wayHolding \ {w}
             /\ isInsertedLog' = isInsertedLog \cup { << w.id, inserted >> }
             /\ fillWayCalls' = IF inserted THEN fillWayCalls ELSE fillWayCalls + 1
             /\ rows' = IF skipped THEN rows ELSE rows (+) WayRows(w, lsOut, pgOut)
             /\ dbRows' = InsertFlush(dbRows, rows')
             /\ wayLog' = wayLog (+) SetToBag({
                             [id |-> w.id,
                              inserted |-> inserted,
                              filled |-> ~inserted,
                              found |-> ~inserted /\ CoordsFound(w),
                              ls |-> IF skipped THEN "none" ELSE lsOut,
                              pg |-> IF skipped THEN "none" ELSE pgOut,
                              diffed |-> diffed] })
             /\ diffCoords' = IF diffed THEN diffCoords \cup {w.id} ELSE diffCoords
    /\ UNCHANGED << flagVars, cliVars, readHist, relPass, closeLog, read, diff, pc,
                    cacheExists, freshAtOpen, storeVars,
                    insertedWays, linearImport, flushCalls, readVars, readStarted,
                    relQueue, matchedRels, wayQueue, wayDone, nodeQueue, closed >>

\* Ways.Iter() is exhausted: the range loop ends, waitFill.Done()
WayWorkerExit ==
    /\ pc = "wait_fill"
    /\ WayIdle > 0
    /\ wayQueue = << >>
    /\ wayDone' = wayDone + 1
    /\ UNCHANGED << flagVars, cliVars, readHist, writeHist, read, diff, pc,
                    cacheExists, freshAtOpen, storeVars,
                    insertedWays, linearImport, flushCalls, readVars, readStarted,
                    fillWayCalls, relQueue, matchedRels, wayQueue, wayHolding,
                    isInsertedLog, nodeQueue, rows, diffCoords, closed >>

\* waitFill.Wait(); close(wayChan); diffCache.Coords.Close()
WaitFill ==
    /\ pc = "wait_fill"
    /\ wayDone = ncpu
    /\ closed' = closed \cup {"wayChan", "diffCoords"}
    /\ closeLog' = closeLog \o << "wayChan", "diffCoords" >>
    /\ pc' = "node_iter"
    /\ UNCHANGED << flagVars, cliVars, readHist, relPass, wayLog, dbRows, read,
                    diff, cacheExists, freshAtOpen, storeVars,
                    insertedWays, linearImport, flushCalls, readVars, readStarted,
                    fillWayCalls, relQueue, matchedRels, wayQueue, wayHolding,
                    wayDone, isInsertedLog, nodeQueue, rows, diffCoords >>

\* nodes := osmCache.Nodes.Iter()
NodesIter ==
    /\ pc = "node_iter"
    /\ nodeQueue' = SortById(cacheNodes)
    /\ pc' = "node_loop"
    /\ UNCHANGED << flagVars, cliVars, readHist, writeHist, read, diff,
                    cacheExists, freshAtOpen, storeVars,
                    insertedWays, linearImport, flushCalls, readVars, readStarted,
                    fillWayCalls, relQueue, matchedRels, wayQueue, wayHolding,
                    wayDone, isInsertedLog, rows, diffCoords, closed >>

\* one pass of the node loop, lines 388-409
NodeStep ==
    /\ pc = "node_loop"
    /\ nodeQueue # << >>
    /\ \E out \in GeomOutcomes :
         LET n == Head(nodeQueue)
             matches == IF out = "ok" THEN PointMatcher(n.tags) ELSE {}
         IN  /\ rows' = rows (+) RowsOf("node", n.id, "point", matches)
             /\ dbRows' = InsertFlush(dbRows, rows')
    /\ nodeQueue' = Tail(nodeQueue)
    /\ UNCHANGED << flagVars, cliVars, readHist, relPass, wayLog, closeLog, read,
                    diff, pc, cacheExists, freshAtOpen, storeVars,
                    insertedWays, linearImport, flushCalls, readVars, readStarted,
                    fillWayCalls, relQueue, matchedRels, wayQueue, wayHolding,
                    wayDone, isInsertedLog, diffCoords, closed >>

\* variant: main goes on to dbWriter.Close() without closing the buffer
InsertBufferCloseOmitted ==
    /\ pc = "node_loop"
    /\ nodeQueue = << >>
    /\ pc' = "db_close"
    /\ UNCHANGED << flagVars, cliVars, readHist, writeHist, read, diff,
                    cacheExists, freshAtOpen, storeVars, insertedWays,
                    linearImport, flushCalls, readVars, writeVars >>

\* the node loop has ended: insertBuffer.Close() passes on what is left
InsertBufferClose ==
    /\ pc = "node_loop"
    /\ nodeQueue = << >>
    /\ closed' = closed \cup {"insertBuffer"}
    /\ closeLog' = Append(closeLog, "insertBuffer")
    /\ dbRows' = rows
    /\ pc' = "db_close"
    /\ UNCHANGED << flagVars, cliVars, readHist, relPass, wayLog, read, diff,
                    cacheExists, freshAtOpen, storeVars,
                    insertedWays, linearImport, flushCalls, readVars, readStarted,
                    fillWayCalls, relQueue, matchedRels, wayQueue, wayHolding,
                    wayDone, isInsertedLog, nodeQueue, rows, diffCoords >>

\* dbWriter.Close()
DbWriterClose ==
    /\ pc = "db_close"
    /\ closed' = closed \cup {"dbWriter"}
    /\ closeLog' = Append(closeLog, "dbWriter")
    /\ pc' = "stop"
    /\ UNCHANGED << flagVars, cliVars, readHist, relPass, wayLog, dbRows, read,
                    diff, cacheExists, freshAtOpen, storeVars,
                    insertedWays, linearImport, flushCalls, readVars, readStarted,
                    fillWayCalls, relQueue, matchedRels, wayQueue, wayHolding,
                    wayDone, isInsertedLog, nodeQueue, rows, diffCoords >>

\* progress.Stop(); main returns and the deferred osmCache.Close() runs
MainStop ==
    /\ pc = "stop"
    /\ pc' = "done"
    /\ UNCHANGED << flagVars, cliVars, readHist, writeHist, read, diff,
                    cacheExists, freshAtOpen, storeVars,
                    insertedWays, linearImport, flushCalls, readVars, writeVars >>

Next ==
    \/ MainRemoveCache \/ MainCacheExistsFatal \/ MainKeepCache \/ MainOpen
    \/ MainSetLinearImport \/ MainSkipRead
    \/ ParserTake \/ ParserSend \/ ParserExit
    \/ \E k \in KindSet : WriterRecv(k)
    \/ \E k \in KindSet : WriterExit(k)
    \/ WayWriterBody \/ RelationWriterBody \/ CoordWriterBody \/ NodeWriterBody
    \/ ParseWaitParser
    \/ ParseClose
    \/ ParseWaitCounter \/ MainSetRandom \/ MainFlush
    \/ MainNoWrite \/ MainWrite \/ RelationsIter \/ RelationStep \/ WaysIter
    \/ WayRecv \/ WayProcess \/ WayWorkerExit \/ WaitFill
    \/ NodesIter \/ NodeStep \/ InsertBufferClose \/ DbWriterClose \/ MainStop

Spec == Init /\ [][Next]_vars

(***************************************************************************)
(* The read phase alone, on a fresh cache directory, for the termination   *)
(* of parse().  The Go scheduler runs every goroutine that can take a      *)
(* step, so a step is taken as long as one is possible.                    *)
(***************************************************************************)
ParseInit == Init /\ read /\ ~cacheExists

ParseNext ==
    \/ MainKeepCache \/ MainOpen \/ MainSetLinearImport
    \/ ParserTake \/ ParserSend \/ ParserExit
    \/ \E k \in KindSet : WriterRecv(k)
    \/ \E k \in KindSet : WriterExit(k)
    \/ WayWriterBody \/ RelationWriterBody \/ CoordWriterBody \/ NodeWriterBody
    \/ ParseWaitParser \/ ParseClose \/ ParseWaitCounter
    \/ MainSetRandom \/ MainFlush

ParseSpec == ParseInit /\ [][ParseNext]_vars /\ WF_vars(ParseNext)

(***************************************************************************)
(* Properties.                                                             *)
(***************************************************************************)
\* parse() has returned to main()
ParseReturned == read /\ pc \notin ({"start", "open", "read_check", "fatal"} \cup ParsePcs)

\* the relation loop of the write phase has ended
RelLoopDone ==
    \/ pc \in {"wait_fill", "node_iter", "node_loop", "db_close"}
    \/ "insertBuffer" \in closed

\* the batches the input file holds for a channel
BatchesOf(k) == { b \in AllBlocks : k \in BlockKinds(b) }

\* ParseBlock has sent the batch of block b on channel k
Sent(k, b) ==
    /\ b < posNext
    /\ k \in BlockKinds(b)
    /\ \A p \in parsing :
         p.pos = b => \E i \in 1..p.sent : Kinds[i] = k

InChan(k, b) == Cardinality({ i \in 1..Len(chans[k]) : chans[k][i] = b })

SeqRange(q) == { q[i] : i \in 1..Len(q) }

Increasing(q) == \A i, j \in 1..Len(q) : i < j => q[i] < q[j]

Skip(k) ==
    \/ k = "coords" /\ skipCoords
    \/ k = "nodes" /\ skipNodes
    \/ k = "ways" /\ skipWays

WayRowsIn(bag) == { r \in BagToSet(bag) : r.src = "way" }

ChannelCloseSafety ==
    /\ ~sendOnClosed
    /\ \A k \in KindSet :
         /\ closeCount[k] <= 1
         /\ closeCount[k] > 0 =>
              posNext > NBlocks /\ parsing = {} /\ parserDone = ParserPool
         /\ \A b \in AllBlocks :
              /\ Sent(k, b) => InChan(k, b) + CopiesIn(b, recvCount[k]) = 1
              /\ ~Sent(k, b) => InChan(k, b) + CopiesIn(b, recvCount[k]) = 0
         /\ ParseReturned =>
              /\ closeCount[k] = 1
              /\ \A b \in BatchesOf(k) : CopiesIn(b, recvCount[k]) = 1

ChannelCloseSafetyWitness ==
    /\ ParseReturned
    /\ ncpu = MaxCPU
    /\ \A k \in KindSet : closeCount[k] = 1
    /\ \A k \in KindSet : \A b \in BatchesOf(k) : CopiesIn(b, recvCount[k]) = 1

\* C3: when the first Iter or fill of the write phase is called, and ever
\* after, no batch is in a channel or in the hands of a writer and every
\* writer has exited, so every put of the read phase has completed.
PhaseBoundary ==
    (readStarted /\ read) =>
        \A k \in KindSet :
            /\ chans[k] = << >>
            /\ holding[k] = {}
            /\ writerDone[k] = WriterPool(k)
            /\ \A b \in BatchesOf(k) : Skip(k) \/ b \in SeqRange(putLog[k])

PhaseBoundaryWitness ==
    /\ readStarted /\ read
    /\ ncpu = MaxCPU
    /\ ~skipCoords /\ ~skipNodes /\ ~skipWays
    /\ \A k \in KindSet : Len(putLog[k]) = Cardinality(BatchesOf(k))

\* C4 as stated: whenever an Iter or a fill has been called, Coords.Flush()
\* was called before, also when the read phase did not run.
FlushBeforeAnyRead == readStarted => flushCalls > 0

\* C4 amended: when the read phase ran, Coords.Flush() was called before the
\* first Iter or fill; with --write alone the process calls no Flush.
FlushBeforeReadAfterParse ==
    /\ (readStarted /\ read) => flushCalls = 1
    /\ ~read => flushCalls = 0

FlushBeforeReadWitness == readStarted /\ read /\ flushCalls = 1 /\ fillWayCalls > 0

\* C5: a PutCoords call happens only while the linear-import flag is on and
\* a Coords.FillWay call only while it is off.
ModeDiscipline ==
    [][ /\ putLog'["coords"] # putLog["coords"] => linearImport /\ linearImport'
        /\ fillWayCalls' # fillWayCalls => ~linearImport /\ ~linearImport' ]_vars

ModeDisciplineWitness ==
    /\ Len(putLog["coords"]) = NBlocks
    /\ fillWayCalls > 0
    /\ ~linearImport

\* C6 as stated: the coord batches reach PutCoords in increasing order, for
\* every number of workers.
MonotonicBulkLoad == Increasing(putLog["coords"])

\* C6 amended: with one parse worker and one coord writer (NumCPU = 1) the
\* coord batches reach PutCoords in increasing order; with more workers
\* every batch still reaches PutCoords exactly once, in linear-import mode,
\* but in no fixed order.
MonotonicBulkLoadOneWorker ==
    /\ ncpu = 1 => Increasing(putLog["coords"])
    /\ \A i, j \in 1..Len(putLog["coords"]) :
         i # j => putLog["coords"][i] # putLog["coords"][j]
    /\ (ParseReturned /\ ~skipCoords) => SeqRange(putLog["coords"]) = AllBlocks

MonotonicOneWorkerWitness ==
    /\ ncpu = 1
    /\ Len(putLog["coords"]) = NBlocks
    /\ ParseReturned

\* C7: a kind whose skip flag is set is never put, all its batches are still
\* received, the other kinds are persisted, and on a fresh cache the store
\* of a skipped kind is empty after the read phase.
SkipDrains ==
    /\ \A k \in KindSet : Skip(k) => putLog[k] = << >>
    /\ ParseReturned =>
         /\ \A k \in KindSet : \A b \in BatchesOf(k) :
              /\ CopiesIn(b, recvCount[k]) = 1
              /\ ~Skip(k) => b \in SeqRange(putLog[k])
         /\ \A b \in AllBlocks :
              /\ ~skipCoords => BlockCoords(b) \subseteq cacheCoords
              /\ ~skipNodes => PutNodes({}, FilterNodes(BlockNodes(b))) \subseteq cacheNodes
              /\ ~skipWays => FilterWays(BlockWays(b)) \subseteq cacheWays
              /\ FilterRelations(BlockRelations(b)) \subseteq cacheRelations
         /\ freshAtOpen =>
              /\ skipCoords => cacheCoords = {}
              /\ skipNodes => cacheNodes = {}
              /\ skipWays => cacheWays = {}

SkipDrainsWitness ==
    /\ ParseReturned
    /\ freshAtOpen
    /\ ncpu = MaxCPU
    /\ skipCoords /\ skipNodes /\ ~skipWays
    /\ cacheCoords = {} /\ cacheNodes = {} /\ cacheWays # {}

\* C8 as stated: after a read phase with skipCoords on a fresh cache the
\* coord store is empty and the write phase inserts no row at all.
SkipCoordsNoRows ==
    (skipCoords /\ read /\ freshAtOpen /\ ParseReturned) =>
        cacheCoords = {} /\ rows = EmptyBag

\* C8 amended: after a read phase with skipCoords on a fresh cache the coord
\* store is empty and the way workers insert no row; the node loop still
\* inserts the rows of the matching nodes, and the relation loop those of
\* the relations build_relation accepts.
SkipCoordsNoWayRows ==
    (skipCoords /\ read /\ freshAtOpen /\ ParseReturned) =>
        cacheCoords = {} /\ WayRowsIn(rows) = {}

SkipCoordsNoWayRowsWitness ==
    /\ skipCoords /\ read /\ freshAtOpen /\ ~skipWays /\ ~skipNodes
    /\ pc = "done"
    /\ "insertBuffer" \in closed
    /\ Cardinality(isInsertedLog) = Cardinality(cacheWays)
    /\ \E r \in BagToSet(rows) : r.src = "node"

\* C9: starting from an empty marker store, when the relation loop has
\* ended the marker holds exactly the ids of the way-typed members of the
\* relations that were matched to a polygon table.
InsertedWaysContent ==
    (freshAtOpen /\ RelLoopDone) =>
        insertedWays =
            UNION { WayMemberIds(r.members) :
                      r \in { x \in cacheRelations : x.id \in matchedRels } }

InsertedWaysContentWitness ==
    /\ freshAtOpen /\ RelLoopDone
    /\ matchedRels # {}
    /\ \E r \in cacheRelations : r.id \notin matchedRels
    /\ \E w \in cacheWays : w.id \notin insertedWays
    /\ \E id \in insertedWays : \A w \in cacheWays : w.id # id

\* C10: in the write phase the marker changes only in the relation loop,
\* only by growing and only before the first IsInserted call; an IsInserted
\* call leaves it unchanged and answers by the marker as the relation loop
\* left it, so no two answers for one way id differ.
SingleWriterMarker ==
    [][ /\ (readStarted /\ insertedWays' # insertedWays) =>
              /\ pc = "rel_loop"
              /\ isInsertedLog = {}
              /\ wayHolding = {} /\ wayQueue = << >>
              /\ insertedWays \subseteq insertedWays'
        /\ isInsertedLog' # isInsertedLog =>
              /\ RelLoopDone
              /\ insertedWays' = insertedWays
              /\ \A a \in isInsertedLog' : a[2] = (a[1] \in insertedWays') ]_vars

SingleWriterMarkerWitness ==
    /\ pc = "wait_fill"
    /\ ncpu = MaxCPU
    /\ matchedRels # {}
    /\ \E a, b \in isInsertedLog : a[2] /\ ~b[2]

\* the way workers have exited and main has passed waitFill.Wait()
WayStageDone == "diffCoords" \in closed

\* the passes of the way worker loop made for the way with this id
PassesOf(id) == { e \in BagToSet(wayLog) : e.id = id }

\* C11: a way whose id is in the inserted-ways marker when a way worker
\* handles it is left out before its coords are filled, and no line-string
\* or polygon row is emitted for it.
NoDoubleEmission ==
    \A e \in BagToSet(wayLog) :
        e.inserted =>
            /\ ~e.filled
            /\ e.ls = "none" /\ e.pg = "none"
            /\ \A r \in WayRowsIn(rows) : r.id # e.id

NoDoubleEmissionWitness ==
    /\ WayStageDone
    /\ \E e \in BagToSet(wayLog) :
         /\ e.inserted
         /\ \E w \in cacheWays :
              /\ w.id = e.id
              /\ CoordsFound(w)
              /\ LineStringMatcher(w.tags) # {}
              /\ PolygonMatcher(w.tags) # {}
    /\ \E r \in BagToSet(rows) : r.src = "relation"
    /\ \E r \in WayRowsIn(rows) : TRUE

\* number of passes of the way worker loop made for the way with this id
PassCount(id) == BagCardinality([e \in PassesOf(id) |-> wayLog[e]])

\* the row belongs to an element of the cache and a rule that matches it
RowJustified(r) ==
    \/ /\ r.src = "relation" /\ r.geom = "multipolygon"
       /\ \E x \in cacheRelations : x.id = r.id /\ r.table \in PolygonMatcher(x.tags)
    \/ /\ r.src = "way" /\ r.geom = "linestring"
       /\ \E w \in cacheWays : w.id = r.id /\ r.table \in LineStringMatcher(w.tags)
    \/ /\ r.src = "way" /\ r.geom = "polygon"
       /\ \E w \in cacheWays :
            w.id = r.id /\ IsClosed(w) /\ r.table \in PolygonMatcher(w.tags)
    \/ /\ r.src = "node" /\ r.geom = "point"
       /\ \E n \in cacheNodes : n.id = r.id /\ r.table \in PointMatcher(n.tags)

\* C12: every row passed to the insert buffer belongs to one pair of an
\* element of the cache and a rule matching it, and no pair yields more
\* than one row; every way Ways.Iter() yields is handled by exactly one
\* way worker, once.
OneRowPerMatch ==
    /\ \A r \in BagToSet(rows) : CopiesIn(r, rows) = 1 /\ RowJustified(r)
    /\ \A e \in BagToSet(wayLog) : \E w \in cacheWays : w.id = e.id
    /\ \A w \in cacheWays : PassCount(w.id) <= 1
    /\ WayStageDone => \A w \in cacheWays : PassCount(w.id) = 1

OneRowPerMatchWitness ==
    /\ pc = "done"
    /\ WayStageDone
    /\ ncpu = MaxCPU
    /\ Cardinality(cacheWays) = 3
    /\ \E a, b \in WayRowsIn(rows) :
         a.id = b.id /\ a.geom = "linestring" /\ b.geom = "polygon"
    /\ \E a, b \in WayRowsIn(rows) : a.id # b.id
    /\ \E r \in BagToSet(rows) : r.src = "node"

\* the way rows in the insert buffer's input that stem from the way with this id
RowsOfWay(id) == { r \in WayRowsIn(rows) : r.id = id }

\* the rows a branch emits for a way when its geometry is built
BranchRows(w, geom) ==
    BagToSet(RowsOf("way", w.id, geom,
                    IF geom = "linestring" THEN LineStringMatcher(w.tags)
                    ELSE PolygonMatcher(w.tags)))

\* C13 as stated: for a closed way that matches line-string and polygon
\* rules, each branch emits its rows with its own geometry whenever its own
\* geometry builds, whatever happened in the other branch.
IndependentBranches ==
    \A e \in BagToSet(wayLog) : \A w \in cacheWays :
        (w.id = e.id /\ e.ls # "none" /\ e.pg # "none") =>
            RowsOfWay(w.id) =
                (IF e.ls = "ok" THEN BranchRows(w, "linestring") ELSE {})
                \cup (IF e.pg = "ok" THEN BranchRows(w, "polygon") ELSE {})

\* C13 amended: each branch emits its rows with its own geometry; the
\* line-string rows are emitted whenever the line-string geometry builds,
\* the polygon rows whenever the polygon geometry builds and the
\* line-string geometry did not fail.
BranchesAfterLineString ==
    \A e \in BagToSet(wayLog) : \A w \in cacheWays :
        (w.id = e.id /\ e.ls # "none" /\ e.pg # "none") =>
            RowsOfWay(w.id) =
                (IF e.ls = "ok" THEN BranchRows(w, "linestring") ELSE {})
                \cup (IF e.pg = "ok" /\ e.ls # "err"
                      THEN BranchRows(w, "polygon") ELSE {})

BranchesAfterLineStringWitness ==
    /\ WayStageDone
    /\ \E e \in BagToSet(wayLog) : e.ls = "err" /\ e.pg = "ok"
    /\ \E e \in BagToSet(wayLog) : e.ls = "ok" /\ e.pg = "none"

RawBatch(k, b) ==
    IF k = "nodes" THEN BlockNodes(b)
    ELSE IF k = "ways" THEN BlockWays(b) ELSE BlockRelations(b)

\* the retention rule of a kind
TagFilter(k, tags) ==
    IF k = "nodes" THEN NodeTagFilter(tags)
    ELSE IF k = "ways" THEN WayTagFilter(tags) ELSE RelationTagFilter(tags)

\* the elements of the batches a writer has put
PutElements(k) == UNION { RawBatch(k, b) : b \in SeqRange(putLog[k]) }

\* C15: every element of a batch a writer puts is passed to the put call
\* with its tags filtered by the kind's retention rule and everything else
\* unchanged, also a way that keeps no tag, which is persisted; the filter
\* has run exactly once on each such element and on nothing else, so never
\* in the write phase.
TagFilterOnce ==
    /\ \A k \in FilteredKinds :
         /\ putArgs[k] =
              { [x EXCEPT !.tags = TagFilter(k, x.tags)] : x \in PutElements(k) }
         /\ \A x \in PutElements(k) : CopiesIn(<< k, x.id >>, filterLog) = 1
    /\ \A f \in BagToSet(filterLog) :
         f[1] \in FilteredKinds /\ \E x \in PutElements(f[1]) : x.id = f[2]
    /\ putArgs["ways"] \subseteq cacheWays
    /\ putArgs["relations"] \subseteq cacheRelations

TagFilterOnceWitness ==
    /\ pc = "done"
    /\ "dbWriter" \in closed
    /\ \E w \in putArgs["ways"] : w.tags = {} /\ w \in cacheWays
    /\ \E w \in putArgs["ways"] :
         w.tags # {} /\ \E x \in BlockWays(1) : x.id = w.id /\ x.tags # w.tags
    /\ putArgs["nodes"] # {}
    /\ putArgs["relations"] # {}
    /\ BagToSet(rows) # {}

\* C16: when geom.BuildRelation fails for a relation, the pass emits no
\* row, marks no member way and goes on with the next relation; the error
\* is logged exactly if it has no level or a level above 0, and dropped
\* silently exactly if it has a level of 0 or less.
RelationGeometryErrors ==
    [][ ( /\ pc = "rel_loop"
          /\ relQueue' # relQueue
          /\ relPass'.build.called
          /\ ~relPass'.build.ok ) =>
            /\ relPass'.id = Head(relQueue).id
            /\ rows' = rows
            /\ dbRows' = dbRows
            /\ insertedWays' = insertedWays
            /\ matchedRels' = matchedRels
            /\ relQueue' = Tail(relQueue)
            /\ pc' = "rel_loop"
            /\ relPass'.logged <=>
                 (~relPass'.build.hasLevel \/ relPass'.build.level > 0)
            /\ ~relPass'.logged <=>
                 (relPass'.build.hasLevel /\ relPass'.build.level <= 0) ]_vars

RelationGeometryErrorsWitness ==
    /\ pc = "rel_loop"
    /\ relPass.id = 1
    /\ relPass.build.called /\ ~relPass.build.ok
    /\ relPass.build.hasLevel /\ relPass.build.level = 0
    /\ ~relPass.logged
    /\ relPass.projected # {}
    /\ freshAtOpen
    /\ BagToSet(rows) = {}
    /\ insertedWays = {}
    /\ relQueue # << >>

\* C17: a pass in which FillMembers or the FillWay of a member way answers
\* NotFound still hands the relation to geom.BuildRelation, and nothing is
\* printed for the missing reference.
MissingReferencesTolerated ==
    ( \/ relPass.members = "NotFound"
      \/ \E x \in relPass.ways : x[2] = "NotFound" ) =>
        /\ relPass.build.called
        /\ \A p \in relPass.printed :
             p[1] = "way" /\ << p[2], "err" >> \in relPass.ways

MissingReferencesToleratedWitness ==
    /\ pc = "rel_loop"
    /\ relPass.id = 1
    /\ relPass.members = "NotFound"
    /\ << 1, "NotFound" >> \in relPass.ways
    /\ relPass.build.called /\ relPass.build.ok
    /\ relPass.printed = {}
    /\ \E r \in BagToSet(rows) : r.src = "relation" /\ r.id = 1

\* C18: in a pass of the relation loop, a way member whose FillWay failed,
\* with NotFound or with another error, is not projected.
MemberSkippedOnCoordFailure ==
    \A x \in relPass.ways : x[2] # "ok" => x[1] \notin relPass.projected

\* the close calls of the write phase in the order of the code
CloseOrder == << "wayChan", "diffCoords", "insertBuffer", "dbWriter" >>

\* all way workers have left their loop
WayWorkersExited == wayDone = ncpu /\ wayHolding = {} /\ wayQueue = << >>

\* C19: the insert buffer is closed once, after the last Insert of the
\* relation loop, the way workers and the node loop and before the DB
\* writer is closed; the diff coord store is closed once, after all way
\* workers have exited; no row is inserted and no way recorded after the
\* respective close, and every inserted row has reached the DB writer when
\* the buffer is closed.
SinkShutdownOrdering ==
    /\ [] /\ Len(closeLog) <= Len(CloseOrder)
          /\ closeLog = SubSeq(CloseOrder, 1, Len(closeLog))
          /\ SeqRange(closeLog) = closed
          /\ "diffCoords" \in closed => WayWorkersExited
          /\ "insertBuffer" \in closed =>
                /\ relQueue = << >>
                /\ WayWorkersExited
                /\ nodeQueue = << >>
                /\ dbRows = rows
          /\ (pc = "done" /\ readStarted) => closeLog = CloseOrder
    /\ [][ /\ rows' # rows => "insertBuffer" \notin closed
           /\ diffCoords' # diffCoords => "diffCoords" \notin closed
           /\ dbRows' # dbRows => "dbWriter" \notin closed ]_vars

SinkShutdownOrderingWitness ==
    /\ pc = "done"
    /\ closeLog = CloseOrder
    /\ ncpu = MaxCPU
    /\ diff /\ diffCoords # {}
    /\ dbRows = rows
    /\ \E r \in BagToSet(rows) : r.src = "relation"
    /\ \E r \in BagToSet(rows) : r.src = "way"
    /\ \E r \in BagToSet(rows) : r.src = "node"

\* the ids of the elements of a store
Ids(store) == { e.id : e \in store }

\* C20: with a read phase and an existing cache, --overwritecache removes
\* the cache before it is opened, with or without --appendcache;
\* --appendcache alone leaves it as it is, and the read phase adds to it;
\* neither flag ends the process before the cache is opened or written.
\* Without a read phase the existing cache is opened as it is, whatever the
\* flags.  Opening changes no store.
CacheLifecycleGuard ==
    [][ /\ (pc = "start" /\ read /\ cacheExists /\ overwritecache) =>
              /\ pc' = "open"
              /\ ~cacheExists'
              /\ cacheCoords' = {} /\ cacheNodes' = {} /\ cacheWays' = {}
              /\ cacheRelations' = {} /\ insertedWays' = {}
        /\ (pc = "start" /\ read /\ cacheExists
              /\ ~overwritecache /\ appendcache) =>
              /\ pc' = "open"
              /\ cacheExists'
              /\ UNCHANGED << storeVars, insertedWays >>
        /\ (pc = "start" /\ read /\ cacheExists
              /\ ~overwritecache /\ ~appendcache) =>
              /\ pc' = "fatal"
              /\ UNCHANGED << cacheExists, storeVars, insertedWays >>
        /\ (pc = "start" /\ ~read /\ cacheExists) =>
              /\ pc' = "open"
              /\ UNCHANGED << cacheExists, storeVars, insertedWays >>
        /\ pc = "fatal" => FALSE
        /\ pc = "open" =>
              /\ pc' = "read_check"
              /\ freshAtOpen' = ~cacheExists
              /\ UNCHANGED << storeVars, insertedWays >>
        /\ (Spawned /\ ~freshAtOpen /\ ~readStarted') =>
              /\ cacheCoords \subseteq cacheCoords'
              /\ Ids(cacheNodes) \subseteq Ids(cacheNodes')
              /\ Ids(cacheWays) \subseteq Ids(cacheWays')
              /\ Ids(cacheRelations) \subseteq Ids(cacheRelations')
              /\ insertedWays' = insertedWays ]_vars

CacheLifecycleGuardWitness ==
    /\ read /\ ~freshAtOpen
    /\ ParseReturned
    /\ \A k \in KindSet : putLog[k] # << >>
    /\ PriorCoords \subseteq cacheCoords
    /\ Ids(PriorWays) \subseteq Ids(cacheWays)
    /\ insertedWays = PriorInsertedWays

====
